---- MODULE Spec2Model ----
(***************************************************************************)
(* Model of the brick-wall layout generator, zone partitioner, dependency  *)
(* linker, minimum-movement build-order planner and build cursor of        *)
(* src/main.py (classes Brick and Wall).                                   *)
(*                                                                         *)
(* Horizontal quantities are millimetres.  COURSE_HEIGHT is 62.5 mm, so    *)
(* every vertical quantity (and therefore every movement cost, which adds  *)
(* a horizontal and a vertical distance) is kept in half-millimetres: the  *)
(* names ending in X2 hold twice the value the source computes.            *)
(***************************************************************************)
EXTENDS Integers, Sequences, FiniteSets, TLC

VARIABLES bond_type,      \* Wall.bond_type, the constructor argument
          pc,             \* position inside Wall.__init__ / "ready" / "failed"
          error,          \* exception raised by the constructor, or "none"
          exposed,        \* TRUE once __init__ returned the Wall to its caller
          rng,            \* the random source read by random.choice
          row_num,        \* loop variable of the bond generator
          attempts,       \* generate_wild_bond: attempts of the current row
          prev_joints,    \* generate_wild_bond: joints of the previous row
          gen_rows,       \* local `rows` of the running bond generator
          rows,           \* Wall.rows
          positions_mm,   \* Wall.positions_mm
          parents,        \* Brick.parents, as column indices of the row below
          anchor,         \* planner: <<anchor_x, 2*anchor_y>>
          stride_id,      \* planner: local stride_id
          build_sequence, \* planner: local build_sequence
          brick_order,    \* Wall.brick_order
          build_index,    \* Wall.build_index
          ret,            \* value returned by the last build_next() call
          moves           \* the front end's counter shown as "Moves:"

vars == <<bond_type, pc, error, exposed, rng, row_num, attempts, prev_joints,
          gen_rows, rows, positions_mm, parents, anchor, stride_id,
          build_sequence, brick_order, build_index, ret, moves>>

(***************************************************************************)
(* Program constants (src/main.py lines 4-17).                             *)
(***************************************************************************)
BRICK_FULL == 210
BRICK_HALF == 100
BRICK_HEADER == 100
HEAD_JOINT == 10
COURSE_HEIGHT_X2 == 125
WALL_WIDTH == 2300
WALL_HEIGHT == 2000
BUILD_WIDTH == 800
BUILD_HEIGHT == 1300
MAX_STAGGER_CHAIN == 6
BRICK_HEIGHT == 50
MAX_ATTEMPTS == 1000

X_ANCHORS == <<0, 300, 700, 1200, 1500>>
Y_ANCHORS == <<0, 700>>

\* BRICK_FULL // 4, the quarter-brick length and the Flemish offset
QUARTER == BRICK_FULL \div 4

\* int(WALL_HEIGHT // COURSE_HEIGHT)
num_courses == (2 * WALL_HEIGHT) \div COURSE_HEIGHT_X2

(***************************************************************************)
(* Bounds of the model.                                                    *)
(***************************************************************************)
\* random.choice is read from a periodic stream of this period; every
\* stream of the period is an input
StreamPeriod == 2

BondNames == {"stretcher", "flemish", "english", "wild", "herringbone"}

Min(a, b) == IF a <= b THEN a ELSE b
Max(a, b) == IF a >= b THEN a ELSE b
Abs(a) == IF a >= 0 THEN a ELSE -a

\* a function with domain 1..n written out as the tuple it is
Tuple(f) == <<>> \o f

(***************************************************************************)
(* Brick.__init__                                                          *)
(***************************************************************************)
Brick(is_half, is_header, is_quarter) ==
    [length       |-> IF is_quarter THEN QUARTER
                      ELSE IF is_header THEN BRICK_HEADER
                      ELSE IF is_half THEN BRICK_HALF
                      ELSE BRICK_FULL,
     is_half      |-> is_half,
     is_header    |-> is_header,
     back_to_back |-> FALSE,
     is_quarter   |-> is_quarter,
     stride       |-> -1,
     built        |-> FALSE,
     is_filler    |-> FALSE]

FullBrick == Brick(FALSE, FALSE, FALSE)
HalfBrick == Brick(TRUE, FALSE, FALSE)

(***************************************************************************)
(* generate_stretcher_bond: the body of the loop for one row_index.        *)
(***************************************************************************)
RECURSIVE FullStretchers(_, _)
\* the `while length_acc + BRICK_FULL + HEAD_JOINT <= WALL_WIDTH` loop;
\* returns the row and the final length_acc
FullStretchers(row, length_acc) ==
    IF length_acc + BRICK_FULL + HEAD_JOINT <= WALL_WIDTH
    THEN FullStretchers(Append(row, FullBrick),
                        length_acc + BRICK_FULL + HEAD_JOINT)
    ELSE [row |-> row, length_acc |-> length_acc]

\* the final half brick fitted without the joint that follows it
FinalHalf_NoJoint(r) ==
    IF r.length_acc + BRICK_HALF <= WALL_WIDTH
    THEN Append(r.row, HalfBrick)
    ELSE r.row

\* `if length_acc + BRICK_HALF + HEAD_JOINT <= WALL_WIDTH`: the final half
FinalHalf(r) ==
    IF r.length_acc + BRICK_HALF + HEAD_JOINT <= WALL_WIDTH
    THEN Append(r.row, HalfBrick)
    ELSE r.row

StretcherRow(row_index) ==
    LET lead == row_index % 2 = 1 /\ BRICK_HALF + HEAD_JOINT <= WALL_WIDTH
        row0 == IF lead THEN <<HalfBrick>> ELSE <<>>
        acc0 == IF lead THEN BRICK_HALF + HEAD_JOINT ELSE 0
    IN  FinalHalf(FullStretchers(row0, acc0))

(***************************************************************************)
(* generate_flemish_bond: the body of the loop for one row_index.          *)
(***************************************************************************)
RECURSIVE FlemishAlternate(_, _, _)
FlemishAlternate(row, length_acc, toggle) ==
    IF toggle
    THEN IF length_acc + BRICK_FULL + HEAD_JOINT > WALL_WIDTH
         THEN row
         ELSE FlemishAlternate(Append(row, FullBrick),
                               length_acc + BRICK_FULL + HEAD_JOINT, FALSE)
    ELSE IF length_acc + BRICK_HALF + HEAD_JOINT > WALL_WIDTH
         THEN row
         ELSE FlemishAlternate(Append(row, HalfBrick),
                               length_acc + BRICK_HALF + HEAD_JOINT, TRUE)

FlemishRow(row_index) ==
    LET lead == row_index % 2 = 1 /\ BRICK_HALF + HEAD_JOINT <= WALL_WIDTH
        row0 == IF lead THEN <<HalfBrick>> ELSE <<>>
        acc0 == IF lead THEN BRICK_HALF + HEAD_JOINT ELSE 0
    IN  FlemishAlternate(row0, acc0, TRUE)

(***************************************************************************)
(* generate_english_bond: the body of the loop for one row_index.          *)
(***************************************************************************)
RECURSIVE FullHeaders(_, _)
FullHeaders(row, length_acc) ==
    IF length_acc + BRICK_HEADER + HEAD_JOINT <= WALL_WIDTH
    THEN FullHeaders(Append(row, Brick(FALSE, TRUE, FALSE)),
                     length_acc + BRICK_HEADER + HEAD_JOINT)
    ELSE row

EnglishRow(row_index) ==
    IF row_index % 2 = 1
    THEN LET qlen == QUARTER + HEAD_JOINT
             q    == 0 + qlen <= WALL_WIDTH
             row1 == IF q THEN <<Brick(FALSE, TRUE, TRUE)>> ELSE <<>>
             acc1 == IF q THEN qlen ELSE 0
             hhalf_len == BRICK_HEADER \div 2 + HEAD_JOINT
             h    == acc1 + hhalf_len <= WALL_WIDTH
             row2 == IF h THEN Append(row1, Brick(TRUE, TRUE, FALSE)) ELSE row1
             acc2 == IF h THEN acc1 + hhalf_len ELSE acc1
         IN  FullHeaders(row2, acc2)
    ELSE FinalHalf(FullStretchers(<<>>, 0))

(***************************************************************************)
(* random.choice([True, False]): the next value of the stream, and the     *)
(* stream after the draw.                                                  *)
(***************************************************************************)
Streams == [1..StreamPeriod -> BOOLEAN]

RandomChoice(g) == g.pat[g.pos]

RandomAdvance(g) == [g EXCEPT !.pos = (g.pos % Len(g.pat)) + 1]

(***************************************************************************)
(* generate_wild_bond                                                      *)
(***************************************************************************)
target_width == WALL_WIDTH + BRICK_FULL + HEAD_JOINT
to_remove == BRICK_FULL + HEAD_JOINT

\* x_offset = (BRICK_FULL // 4) * (row_num % 4)
WildXOffset(r) == QUARTER * (r % 4)

\* the quarter bricks prepended so that the row starts at x_offset
WildQuarters(r) ==
    Tuple([q \in 1..(WildXOffset(r) \div QUARTER) |-> Brick(FALSE, FALSE, TRUE)])

\* `if last_half: is_half = False`
ForceFull(choice, last_half) == IF last_half THEN FALSE ELSE choice

RECURSIVE SampleRow(_)
\* step 2: the `while x + BRICK_HALF <= target_width` loop over the
\* sampling state [x, row_bricks, curr_joints, last_half, rng]
SampleRow(st) ==
    IF st.x + BRICK_HALF <= target_width
    THEN LET is_half   == ForceFull(RandomChoice(st.rng), st.last_half)
             brick_len == IF is_half THEN BRICK_HALF ELSE BRICK_FULL
             g         == RandomAdvance(st.rng)
         IN  IF st.x + brick_len > target_width
             THEN [st EXCEPT !.rng = g]
             ELSE SampleRow([x           |-> st.x + brick_len + HEAD_JOINT,
                             row_bricks  |-> Append(st.row_bricks,
                                                    Brick(is_half, FALSE, FALSE)),
                             curr_joints |-> st.curr_joints
                                               \cup {st.x + brick_len + HEAD_JOINT},
                             last_half   |-> is_half,
                             rng         |-> g])
    ELSE st

has_adjacent_halves(row_list) ==
    \E idx \in 1..(Len(row_list) - 1) :
        row_list[idx].is_half /\ row_list[idx + 1].is_half

RECURSIVE SortedSeq(_)
\* sorted(curr_joints)
SortedSeq(S) ==
    IF S = {} THEN <<>>
    ELSE LET m == CHOOSE a \in S : \A b \in S : a <= b
         IN  <<m>> \o SortedSeq(S \ {m})

RECURSIVE StaggerScan(_, _, _, _)
StaggerScan(js, n, chain, prev) ==
    IF n > Len(js) THEN FALSE
    ELSE IF \E p \in prev : Abs(js[n] - p) \in {BRICK_FULL, BRICK_HALF}
         THEN IF chain + 1 > MAX_STAGGER_CHAIN THEN TRUE
              ELSE StaggerScan(js, n + 1, chain + 1, prev)
         ELSE StaggerScan(js, n + 1, 0, prev)

has_stagger_chain(curr, prev) == StaggerScan(SortedSeq(curr), 1, 0, prev)

\* the constraint check with its outcome inverted
WildRejected_Inverted(st, prev) ==
    ~(\/ has_adjacent_halves(st.row_bricks)
      \/ has_stagger_chain(st.curr_joints, prev)
      \/ (st.curr_joints \cap prev) # {})

\* step 3: the condition under which the sampled row is thrown away
WildRejected(st, prev) ==
    \/ has_adjacent_halves(st.row_bricks)
    \/ has_stagger_chain(st.curr_joints, prev)
    \/ (st.curr_joints \cap prev) # {}

\* the filler chosen by the gap alone, without rule 4a
FillerKind_GapOnly(st) ==
    LET used_width == st.x - HEAD_JOINT
        gap        == target_width - used_width
    IN  IF gap >= BRICK_FULL THEN "full"
        ELSE IF gap >= BRICK_HALF THEN "half"
        ELSE "none"

\* step 4: the filler appended to an accepted row, "none" when the gap is
\* too small
FillerKind(st) ==
    LET used_width == st.x - HEAD_JOINT
        gap        == target_width - used_width
        n          == Len(st.row_bricks)
    IN  IF n > 0 /\ st.row_bricks[n].is_half /\ gap >= BRICK_HALF THEN "full"
        ELSE IF gap >= BRICK_FULL THEN "full"
        ELSE IF gap >= BRICK_HALF THEN "half"
        ELSE "none"

AddFiller(st) ==
    LET kind   == FillerKind(st)
        filler == [Brick(kind = "half", FALSE, FALSE) EXCEPT !.is_filler = TRUE]
        nx     == st.x + filler.length + HEAD_JOINT
    IN  IF kind = "none" THEN st
        ELSE [st EXCEPT !.row_bricks  = Append(@, filler),
                        !.x           = nx,
                        !.curr_joints = @ \cup {nx}]

RECURSIVE CropLoop(_, _, _, _)
\* step 5: the crop loop; returns [new_row, i_br] with i_br the (1-based)
\* index of the first brick the loop did not look at
CropLoop(row_bricks, i_br, remaining_to_remove, new_row) ==
    IF i_br <= Len(row_bricks) /\ remaining_to_remove > 0
    THEN LET brick == row_bricks[i_br]
             span  == brick.length + HEAD_JOINT
         IN  IF remaining_to_remove >= span
             THEN CropLoop(row_bricks, i_br + 1,
                           remaining_to_remove - span, new_row)
             ELSE IF remaining_to_remove < brick.length
             THEN [new_row |-> Append(new_row,
                                  [brick EXCEPT
                                     !.length = @ - remaining_to_remove]),
                   i_br    |-> i_br + 1]
             ELSE IF remaining_to_remove - brick.length >= HEAD_JOINT
             THEN CropLoop(row_bricks, i_br + 1,
                           remaining_to_remove - brick.length - HEAD_JOINT,
                           new_row)
             ELSE [new_row |-> new_row, i_br |-> i_br + 1]
    ELSE [new_row |-> new_row, i_br |-> i_br]

\* steps 5 and 6: the row handed to rows.append
CropRow(row_bricks) ==
    LET c == CropLoop(row_bricks, 1, to_remove, <<>>)
    IN  c.new_row \o SubSeq(row_bricks, c.i_br, Len(row_bricks))

\* one pass through the body of `while True` up to the constraint check
WildSample(r, g) ==
    SampleRow([x           |-> WildXOffset(r),
               row_bricks  |-> WildQuarters(r),
               curr_joints |-> {},
               last_half   |-> FALSE,
               rng         |-> g])

(***************************************************************************)
(* Indexing.  Rows and columns are numbered from 0 as in the source; the   *)
(* sequences of the model are 1-based, so brick (i, j) is rs[i+1][j+1].    *)
(***************************************************************************)
At(rs, i, j) == rs[i + 1][j + 1]

RowIdx(rs) == 0..(Len(rs) - 1)
ColIdx(rs, i) == 0..(Len(rs[i + 1]) - 1)

(***************************************************************************)
(* Wall.__init__ step 2: positions_mm of one row.                          *)
(***************************************************************************)
RECURSIVE RowPositions(_, _, _)
RowPositions(row, x, row_positions) ==
    IF Len(row_positions) = Len(row) THEN row_positions
    ELSE RowPositions(row,
                      x + row[Len(row_positions) + 1].length + HEAD_JOINT,
                      Append(row_positions, x))

ComputePositions(rs) ==
    Tuple([r \in 1..Len(rs) |-> RowPositions(rs[r], 0, <<>>)])

\* row_x_offset without the shift of the odd flemish rows
row_x_offset_Unshifted(bond, i) == 0

\* Wall.__init__ step 3: row_x_offset[i]
row_x_offset(bond, i) ==
    IF bond = "flemish" /\ i % 2 = 1 THEN QUARTER ELSE 0

(***************************************************************************)
(* assign_strides                                                          *)
(***************************************************************************)
\* range(0, stop, step) as a sequence
Range0(stop, step) == [n \in 1..((stop + step - 1) \div step) |-> (n - 1) * step]

\* the zones in the order the two nested loops visit them; the n-th zone
\* visited gets stride_id n - 1
Zones ==
    LET tops  == Range0(WALL_HEIGHT, BUILD_HEIGHT)
        lefts == Range0(WALL_WIDTH, BUILD_WIDTH)
    IN  [n \in 1..(Len(tops) * Len(lefts)) |->
            [top  |-> tops[((n - 1) \div Len(lefts)) + 1],
             left |-> lefts[((n - 1) % Len(lefts)) + 1]]]

\* AssignZone taking only the bricks that lie inside the zone entirely
AssignZone_Contained(rs, pos, zone, id) ==
    LET h_start    == (2 * zone.top) \div COURSE_HEIGHT_X2
        h_end      == Min((2 * (zone.top + BUILD_HEIGHT)) \div COURSE_HEIGHT_X2,
                          Len(rs))
        zone_left  == zone.left
        zone_right == zone.left + BUILD_WIDTH
    IN  Tuple([r \in 1..Len(rs) |->
           Tuple([c \in 1..Len(rs[r]) |->
              LET brick_left  == pos[r][c]
                  brick_right == brick_left + rs[r][c].length
              IN  IF /\ r - 1 >= h_start
                     /\ r - 1 < h_end
                     /\ brick_left >= zone_left
                     /\ brick_right <= zone_right
                  THEN [rs[r][c] EXCEPT !.stride = id]
                  ELSE rs[r][c]])])

\* AssignZone leaving alone the bricks an earlier zone has labelled
AssignZone_KeepFirst(rs, pos, zone, id) ==
    LET h_start    == (2 * zone.top) \div COURSE_HEIGHT_X2
        h_end      == Min((2 * (zone.top + BUILD_HEIGHT)) \div COURSE_HEIGHT_X2,
                          Len(rs))
        zone_left  == zone.left
        zone_right == zone.left + BUILD_WIDTH
    IN  Tuple([r \in 1..Len(rs) |->
           Tuple([c \in 1..Len(rs[r]) |->
              LET brick_left  == pos[r][c]
                  brick_right == brick_left + rs[r][c].length
              IN  IF /\ r - 1 >= h_start
                     /\ r - 1 < h_end
                     /\ brick_left < zone_right
                     /\ brick_right > zone_left
                     /\ rs[r][c].stride = -1
                  THEN [rs[r][c] EXCEPT !.stride = id]
                  ELSE rs[r][c]])])

\* the body of the two outer loops for one zone
AssignZone(rs, pos, zone, id) ==
    LET h_start    == (2 * zone.top) \div COURSE_HEIGHT_X2
        h_end      == Min((2 * (zone.top + BUILD_HEIGHT)) \div COURSE_HEIGHT_X2,
                          Len(rs))
        zone_left  == zone.left
        zone_right == zone.left + BUILD_WIDTH
    IN  Tuple([r \in 1..Len(rs) |->
           Tuple([c \in 1..Len(rs[r]) |->
              LET brick_left  == pos[r][c]
                  brick_right == brick_left + rs[r][c].length
              IN  IF /\ r - 1 >= h_start
                     /\ r - 1 < h_end
                     /\ brick_left < zone_right
                     /\ brick_right > zone_left
                  THEN [rs[r][c] EXCEPT !.stride = id]
                  ELSE rs[r][c]])])

RECURSIVE AssignZones(_, _, _)
AssignZones(rs, pos, n) ==
    IF n > Len(Zones) THEN rs
    ELSE AssignZones(AssignZone(rs, pos, Zones[n], n - 1), pos, n + 1)

\* the English adjustment: a header takes the stride of the first brick of
\* the row below that it overlaps
EnglishAdjust(rs, pos) ==
    Tuple([r \in 1..Len(rs) |->
       Tuple([c \in 1..Len(rs[r]) |->
          IF (r - 1) % 2 = 1 /\ rs[r][c].is_header
          THEN LET l1 == pos[r][c]
                   r1 == l1 + rs[r][c].length
                   ks == {k \in 1..Len(rs[r - 1]) :
                            LET l2 == pos[r - 1][k]
                                r2 == l2 + rs[r - 1][k].length
                            IN  ~(r2 <= l1 \/ l2 >= r1)}
               IN  IF ks = {} THEN rs[r][c]
                   ELSE [rs[r][c] EXCEPT !.stride =
                           rs[r - 1][CHOOSE k \in ks :
                                        \A m \in ks : k <= m].stride]
          ELSE rs[r][c]])])

assign_strides(rs, pos, bond) ==
    LET zoned == AssignZones(rs, pos, 1)
    IN  IF bond = "english" THEN EnglishAdjust(zoned, pos) ELSE zoned

(***************************************************************************)
(* link_parents_for_all_bricks: parents of brick (i, j) as the set of      *)
(* column indices (from 0) of the bricks of row i-1 it rests on.           *)
(***************************************************************************)
\* `max(left1, left2) < min(right1, right2)`
Overlaps(left1, right1, left2, right2) ==
    Max(left1, left2) < Min(right1, right2)

link_parents(rs, pos, bond) ==
    Tuple([r \in 1..Len(rs) |->
       Tuple([c \in 1..Len(rs[r]) |->
          IF r = 1 THEN {}
          ELSE LET x_offset_i    == row_x_offset(bond, r - 1)
                   x_offset_prev == row_x_offset(bond, r - 2)
                   left1  == pos[r][c] + x_offset_i
                   right1 == left1 + rs[r][c].length
               IN  {k - 1 : k \in
                      {k \in 1..Len(rs[r - 1]) :
                         LET left2  == pos[r - 1][k] + x_offset_prev
                             right2 == left2 + rs[r - 1][k].length
                         IN  Overlaps(left1, right1, left2, right2)}}])])

(***************************************************************************)
(* _compute_anchor_candidates: the candidates of brick (i, j), in the      *)
(* order the source appends them, as <<nax, 2*nay>>.                       *)
(***************************************************************************)
AnchorGrid ==
    [n \in 1..(Len(X_ANCHORS) * Len(Y_ANCHORS)) |->
        <<X_ANCHORS[((n - 1) \div Len(Y_ANCHORS)) + 1],
          2 * Y_ANCHORS[((n - 1) % Len(Y_ANCHORS)) + 1]>>]

\* brick spanning [x_mm, x_mm + length_mm] on row i lies inside the window
\* anchored at a
InWindow(x_mm, length_mm, i, a) ==
    /\ x_mm >= a[1]
    /\ x_mm + length_mm <= a[1] + BUILD_WIDTH
    /\ i * COURSE_HEIGHT_X2 >= a[2]
    /\ i * COURSE_HEIGHT_X2 + 2 * BRICK_HEIGHT <= a[2] + 2 * BUILD_HEIGHT

anchor_candidates(rs, pos, bond, i, j) ==
    LET base_x == pos[i + 1][j + 1] + row_x_offset(bond, i)
        Fits(a) == InWindow(base_x, At(rs, i, j).length, i, a)
    IN  SelectSeq(AnchorGrid, Fits)

(***************************************************************************)
(* compute_min_movement_build_order: one iteration of the while loop.      *)
(* Costs are in half-millimetres (twice dx + dy of the source).            *)
(***************************************************************************)
MoveCost(a, b) == 2 * Abs(a[1] - b[1]) + Abs(a[2] - b[2])

RECURSIVE BestQuantized(_, _, _, _)
\* (C) the loop over the precomputed candidates: the first candidate of
\* least cost; acc.found is FALSE while cand_cost is None
BestQuantized(cands, n, cur, acc) ==
    IF n > Len(cands) THEN acc
    ELSE LET cost == MoveCost(cands[n], cur)
             nacc == IF ~acc.found \/ cost < acc.cost
                     THEN [found |-> TRUE, cost |-> cost, anchor |-> cands[n]]
                     ELSE acc
         IN  IF cost = 0 THEN nacc
             ELSE BestQuantized(cands, n + 1, cur, nacc)

\* (D) the "just-large-enough" anchor
FallbackAnchor(x_mm, y_x2) ==
    <<Min(Max(0, x_mm), WALL_WIDTH - BUILD_WIDTH),
      Min(Max(0, y_x2), 2 * (WALL_HEIGHT - BUILD_HEIGHT))>>

\* (B)-(D): cand_cost and cand_anchor of brick (i, j) seen from anchor cur
Placement(rs, pos, bond, i, j, cur) ==
    LET x_offset_i == IF bond = "flemish" /\ i % 2 = 1 THEN QUARTER ELSE 0
        x_mm       == pos[i + 1][j + 1] + x_offset_i
        length_mm  == At(rs, i, j).length
    IN  IF InWindow(x_mm, length_mm, i, cur)
        THEN [found |-> TRUE, cost |-> 0, anchor |-> cur]
        ELSE LET q == BestQuantized(anchor_candidates(rs, pos, bond, i, j),
                                    1, cur,
                                    [found |-> FALSE, cost |-> 0,
                                     anchor |-> cur])
                 f == FallbackAnchor(x_mm, i * COURSE_HEIGHT_X2)
             IN  IF q.found THEN q
                 ELSE [found |-> TRUE, cost |-> MoveCost(f, cur),
                       anchor |-> f]

\* diag_key = i + (x_mm / BRICK_FULL), multiplied by BRICK_FULL
DiagKey(bond, pos, i, j) ==
    i * BRICK_FULL + pos[i + 1][j + 1] + row_x_offset(bond, i)

\* Buildable testing the leftmost parent only
Buildable_FirstParentOnly(rs, par, i, j) ==
    /\ ~At(rs, i, j).built
    /\ \A k \in par[i + 1][j + 1] :
          (\A m \in par[i + 1][j + 1] : k <= m) => At(rs, i - 1, k).built

\* Buildable asking for some built parent instead of every parent built
Buildable_SomeParent(rs, par, i, j) ==
    /\ ~At(rs, i, j).built
    /\ \E k \in par[i + 1][j + 1] : At(rs, i - 1, k).built

\* (A) brick (i, j) is buildable: not built and every parent built
Buildable(rs, par, i, j) ==
    /\ ~At(rs, i, j).built
    /\ \A k \in par[i + 1][j + 1] : At(rs, i - 1, k).built

\* the update taking a later brick for its lower cost only
Better_CostOnly(cand_cost, diag_key, best) ==
    \/ ~best.found
    \/ cand_cost < best.cost

\* the update of best_cost / best_diag / best_anchor / best_item
Better(cand_cost, diag_key, best) ==
    \/ ~best.found
    \/ cand_cost < best.cost
    \/ (cand_cost = best.cost /\ diag_key < best.diag)

\* the bricks of row i that pass the filter of (A), left to right
BuildableOfRow(rs, par, i) ==
    LET row_items == [c \in 1..Len(rs[i + 1]) |-> <<i, c - 1>>]
        Test(item) == Buildable(rs, par, item[1], item[2])
    IN  SelectSeq(row_items, Test)

RECURSIVE BuildableFrom(_, _, _)
BuildableFrom(rs, par, i) ==
    IF i >= Len(rs) THEN <<>>
    ELSE BuildableOfRow(rs, par, i) \o BuildableFrom(rs, par, i + 1)

\* buildable = [(i, j, b) for (i, j, b) in all_bricks if ...], in the
\* row-major order of all_bricks
BuildableList(rs, par) == BuildableFrom(rs, par, 0)

\* best.found is FALSE while best_cost is None
NoBest ==
    [found |-> FALSE, cost |-> 0, diag |-> 0,
     anchor |-> <<0, 0>>, item |-> <<0, 0>>]

\* (B)-(D) and diag_key for every item of buildable
Candidates(rs, pos, bond, cur, buildable) ==
    Tuple([n \in 1..Len(buildable) |->
             LET item == buildable[n]
                 p    == Placement(rs, pos, bond, item[1], item[2], cur)
             IN  [found  |-> TRUE,
                  cost   |-> p.cost,
                  diag   |-> DiagKey(bond, pos, item[1], item[2]),
                  anchor |-> p.anchor,
                  item   |-> item]])

RECURSIVE PickBest(_, _, _)
\* the `for (i, j, brick) in buildable` loop: the running best after the
\* n-th item and on
PickBest(cands, n, best) ==
    IF n > Len(cands) THEN best
    ELSE PickBest(cands, n + 1,
                  IF Better(cands[n].cost, cands[n].diag, best)
                  THEN cands[n] ELSE best)

BestItem(rs, pos, par, bond, cur) ==
    PickBest(Candidates(rs, pos, bond, cur, BuildableList(rs, par)), 1, NoBest)

RECURSIVE CountBricks(_, _)
CountBricks(rs, n) ==
    IF n > Len(rs) THEN 0 ELSE Len(rs[n]) + CountBricks(rs, n + 1)

\* total = len(all_bricks)
TotalBricks(rs) == CountBricks(rs, 1)

(***************************************************************************)
(* build_next: the Wall fields and the return value after one call.        *)
(***************************************************************************)
\* build_next without the english two-call rule: the first call advances
build_next_SinglePass(rs, order, idx, bond) ==
    IF idx >= Len(order)
    THEN [rows |-> rs, build_index |-> idx, ret |-> FALSE]
    ELSE LET i     == order[idx + 1][1]
             j     == order[idx + 1][2]
         IN  [rows        |-> [rs EXCEPT ![i + 1][j + 1].built = TRUE],
              build_index |-> idx + 1,
              ret         |-> TRUE]

\* build_next advancing build_index before the test for exhaustion
build_next_AdvanceFirst(rs, order, idx, bond) ==
    IF idx >= Len(order)
    THEN [rows |-> rs, build_index |-> idx + 1, ret |-> FALSE]
    ELSE LET i            == order[idx + 1][1]
             j            == order[idx + 1][2]
             brick        == At(rs, i, j)
             is_english   == bond = "english"
             is_stretcher == i % 2 = 0
         IN  IF ~brick.built
             THEN [rows        |-> [rs EXCEPT ![i + 1][j + 1].built = TRUE],
                   build_index |-> IF ~is_english \/ ~is_stretcher
                                   THEN idx + 1 ELSE idx,
                   ret         |-> TRUE]
             ELSE IF is_english /\ is_stretcher /\ ~brick.back_to_back
             THEN [rows        |-> [rs EXCEPT
                                      ![i + 1][j + 1].back_to_back = TRUE],
                   build_index |-> idx + 1,
                   ret         |-> TRUE]
             ELSE [rows |-> rs, build_index |-> idx + 1, ret |-> TRUE]

build_next(rs, order, idx, bond) ==
    IF idx >= Len(order)
    THEN [rows |-> rs, build_index |-> idx, ret |-> FALSE]
    ELSE LET i            == order[idx + 1][1]
             j            == order[idx + 1][2]
             brick        == At(rs, i, j)
             is_english   == bond = "english"
             is_stretcher == i % 2 = 0
         IN  IF ~brick.built
             THEN [rows        |-> [rs EXCEPT ![i + 1][j + 1].built = TRUE],
                   build_index |-> IF ~is_english \/ ~is_stretcher
                                   THEN idx + 1 ELSE idx,
                   ret         |-> TRUE]
             ELSE IF is_english /\ is_stretcher /\ ~brick.back_to_back
             THEN [rows        |-> [rs EXCEPT
                                      ![i + 1][j + 1].back_to_back = TRUE],
                   build_index |-> idx + 1,
                   ret         |-> TRUE]
             ELSE [rows |-> rs, build_index |-> idx + 1, ret |-> TRUE]

(***************************************************************************)
(* The state machine.                                                      *)
(***************************************************************************)
\* generate_bond falling back to the stretcher generator
generate_bond_Default(b) ==
    IF b = "flemish" THEN "flemish"
    ELSE IF b = "english" THEN "english"
    ELSE IF b = "wild" THEN "wild"
    ELSE "stretcher"

\* generate_bond: the generator a bond-type name is dispatched to
generate_bond(b) ==
    IF b = "stretcher" THEN "stretcher"
    ELSE IF b = "flemish" THEN "flemish"
    ELSE IF b = "english" THEN "english"
    ELSE IF b = "wild" THEN "wild"
    ELSE "ValueError"

\* a row of one of the three deterministic generators
CourseOf(kind, row_index) ==
    IF kind = "stretcher" THEN StretcherRow(row_index)
    ELSE IF kind = "flemish" THEN FlemishRow(row_index)
    ELSE EnglishRow(row_index)

\* Wall(bond_type) is called; random.choice reads any stream of period
\* StreamPeriod (only the wild generator reads it, so the other bonds are
\* started with one stream)
Init ==
    /\ bond_type \in BondNames
    /\ rng \in {[pat |-> p, pos |-> 1] : p \in Streams}
    /\ (bond_type # "wild" => rng.pat = [n \in 1..StreamPeriod |-> TRUE])
    /\ pc = "generate_bond"
    /\ error = "none"
    /\ exposed = FALSE
    /\ row_num = 0
    /\ attempts = 0
    /\ prev_joints = {}
    /\ gen_rows = <<>>
    /\ rows = <<>>
    /\ positions_mm = <<>>
    /\ parents = <<>>
    /\ anchor = <<0, 0>>
    /\ stride_id = 0
    /\ build_sequence = <<>>
    /\ brick_order = <<>>
    /\ build_index = 0
    /\ ret = TRUE
    /\ moves = 0

\* generate_bond raises ValueError for an unsupported bond type
RaiseUnsupported ==
    /\ pc = "generate_bond"
    /\ generate_bond(bond_type) = "ValueError"
    /\ pc' = "failed"
    /\ error' = "ValueError"
    /\ UNCHANGED <<moves, bond_type, exposed, rng, row_num, attempts, prev_joints,
                   gen_rows, rows, positions_mm, parents, anchor, stride_id,
                   build_sequence, brick_order, build_index, ret>>

\* one iteration of `for row_index in range(num_courses)` of the
\* stretcher, flemish or english generator
GenerateCourse ==
    /\ pc = "generate_bond"
    /\ generate_bond(bond_type) \in {"stretcher", "flemish", "english"}
    /\ row_num < num_courses
    /\ gen_rows' = Append(gen_rows, CourseOf(generate_bond(bond_type), row_num))
    /\ row_num' = row_num + 1
    /\ UNCHANGED <<moves, bond_type, pc, error, exposed, rng, attempts, prev_joints,
                   rows, positions_mm, parents, anchor, stride_id,
                   build_sequence, brick_order, build_index, ret>>

\* generate_wild_bond: one iteration of `while True` for row row_num; an
\* accepted sample also runs the filler, the crop and rows.append
WildAttempt ==
    /\ pc = "generate_bond"
    /\ generate_bond(bond_type) = "wild"
    /\ row_num < num_courses
    /\ LET st == WildSample(row_num, rng)
       IN  /\ rng' = st.rng
           /\ IF WildRejected(st, prev_joints)
              THEN IF attempts + 1 >= MAX_ATTEMPTS
                   THEN /\ pc' = "failed"
                        /\ error' = "RuntimeError"
                        /\ attempts' = attempts + 1
                        /\ UNCHANGED <<row_num, prev_joints, gen_rows>>
                   ELSE /\ attempts' = attempts + 1
                        /\ UNCHANGED <<pc, error, row_num, prev_joints,
                                       gen_rows>>
              ELSE LET f == AddFiller(st)
                   IN  /\ prev_joints' = f.curr_joints
                       /\ gen_rows' = Append(gen_rows, CropRow(f.row_bricks))
                       /\ row_num' = row_num + 1
                       /\ attempts' = 0
                       /\ UNCHANGED <<pc, error>>
    /\ UNCHANGED <<moves, bond_type, exposed, rows, positions_mm, parents, anchor,
                   stride_id, build_sequence, brick_order, build_index, ret>>

\* the generator returns: Wall.__init__ steps 1 to 3
ComputeLayout ==
    /\ pc = "generate_bond"
    /\ generate_bond(bond_type) # "ValueError"
    /\ row_num >= num_courses
    /\ rows' = gen_rows
    /\ positions_mm' = ComputePositions(gen_rows)
    /\ gen_rows' = <<>>
    /\ pc' = "assign_strides"
    /\ UNCHANGED <<moves, bond_type, error, exposed, rng, row_num, attempts,
                   prev_joints, parents, anchor, stride_id, build_sequence,
                   brick_order, build_index, ret>>

\* Wall.__init__ step 4
AssignStrides ==
    /\ pc = "assign_strides"
    /\ rows' = assign_strides(rows, positions_mm, bond_type)
    /\ pc' = "link_parents"
    /\ UNCHANGED <<moves, bond_type, error, exposed, rng, row_num, attempts,
                   prev_joints, gen_rows, positions_mm, parents, anchor,
                   stride_id, build_sequence, brick_order, build_index, ret>>

\* Wall.__init__ steps 5 and 6 up to the planner's loop
LinkParents ==
    /\ pc = "link_parents"
    /\ parents' = link_parents(rows, positions_mm, bond_type)
    /\ brick_order' = <<>>
    /\ build_sequence' = <<>>
    /\ stride_id' = 0
    /\ anchor' = <<0, 0>>
    /\ pc' = "plan"
    /\ UNCHANGED <<moves, bond_type, error, exposed, rng, row_num, attempts,
                   prev_joints, gen_rows, rows, positions_mm, build_index, ret>>

\* the planner's iteration counting a new stride for every brick placed
PlanStep_CountEveryBrick ==
    /\ pc = "plan"
    /\ Len(build_sequence) < TotalBricks(rows)
    /\ LET best == BestItem(rows, positions_mm, parents, bond_type, anchor)
           bi   == best.item[1]
           bj   == best.item[2]
           sid  == IF best.cost >= 0 THEN stride_id + 1 ELSE stride_id
       IN  IF ~best.found
           THEN /\ pc' = "failed"
                /\ error' = "RuntimeError"
                /\ UNCHANGED <<rows, anchor, stride_id, build_sequence>>
           ELSE /\ stride_id' = sid
                /\ anchor' = IF best.cost >= 0 THEN best.anchor ELSE anchor
                /\ rows' = [rows EXCEPT ![bi + 1][bj + 1] =
                              [@ EXCEPT !.built = TRUE, !.stride = sid]]
                /\ build_sequence' = Append(build_sequence, <<bi, bj>>)
                /\ UNCHANGED <<pc, error>>
    /\ UNCHANGED <<moves, bond_type, exposed, rng, row_num, attempts, prev_joints,
                   gen_rows, positions_mm, parents, brick_order, build_index,
                   ret>>

\* one iteration of the planner's `while len(built_set) < total`
PlanStep ==
    /\ pc = "plan"
    /\ Len(build_sequence) < TotalBricks(rows)
    /\ LET best == BestItem(rows, positions_mm, parents, bond_type, anchor)
           bi   == best.item[1]
           bj   == best.item[2]
           sid  == IF best.cost > 0 THEN stride_id + 1 ELSE stride_id
       IN  IF ~best.found
           THEN /\ pc' = "failed"
                /\ error' = "RuntimeError"
                /\ UNCHANGED <<rows, anchor, stride_id, build_sequence>>
           ELSE /\ stride_id' = sid
                /\ anchor' = IF best.cost > 0 THEN best.anchor ELSE anchor
                /\ rows' = [rows EXCEPT ![bi + 1][bj + 1] =
                              [@ EXCEPT !.built = TRUE, !.stride = sid]]
                /\ build_sequence' = Append(build_sequence, <<bi, bj>>)
                /\ UNCHANGED <<pc, error>>
    /\ UNCHANGED <<moves, bond_type, exposed, rng, row_num, attempts, prev_joints,
                   gen_rows, positions_mm, parents, brick_order, build_index,
                   ret>>

\* the planner returns: Wall.__init__ steps 7 and 8, and the Wall is handed
\* to the caller
FinishInit ==
    /\ pc = "plan"
    /\ Len(build_sequence) >= TotalBricks(rows)
    /\ brick_order' = build_sequence
    /\ rows' = Tuple([r \in 1..Len(rows) |->
                  Tuple([c \in 1..Len(rows[r]) |->
                           [rows[r][c] EXCEPT !.built = FALSE]])])
    /\ build_index' = 0
    /\ exposed' = TRUE
    /\ pc' = "ready"
    /\ UNCHANGED <<moves, bond_type, error, rng, row_num, attempts, prev_joints,
                   gen_rows, positions_mm, parents, anchor, stride_id,
                   build_sequence, ret>>

\* the caller calls build_next() on the Wall it was handed
BuildNext ==
    /\ pc = "ready"
    /\ exposed
    /\ LET r == build_next(rows, brick_order, build_index, bond_type)
       IN  /\ rows' = r.rows
           /\ build_index' = r.build_index
           /\ ret' = r.ret
    /\ UNCHANGED <<moves, bond_type, pc, error, exposed, rng, row_num, attempts,
                   prev_joints, gen_rows, positions_mm, parents, anchor,
                   stride_id, build_sequence, brick_order>>

\* the graphical front end handles a press of Enter: the test of
\* build_index, the update of `moves` and the call of build_next
PressEnter ==
    /\ pc = "ready"
    /\ exposed
    /\ build_index < Len(brick_order)
    /\ LET prev_stride == IF build_index > 0
                          THEN At(rows, brick_order[build_index][1],
                                        brick_order[build_index][2]).stride
                          ELSE -1
           curr_brick  == At(rows, brick_order[build_index + 1][1],
                                   brick_order[build_index + 1][2])
           r           == build_next(rows, brick_order, build_index, bond_type)
       IN  /\ moves' = IF curr_brick.stride > prev_stride
                       THEN moves + 1 ELSE moves
           /\ rows' = r.rows
           /\ build_index' = r.build_index
           /\ ret' = r.ret
    /\ UNCHANGED <<bond_type, pc, error, exposed, rng, row_num, attempts,
                   prev_joints, gen_rows, positions_mm, parents, anchor,
                   stride_id, build_sequence, brick_order>>

Next ==
    \/ RaiseUnsupported
    \/ GenerateCourse
    \/ WildAttempt
    \/ ComputeLayout
    \/ AssignStrides
    \/ LinkParents
    \/ PlanStep
    \/ FinishInit
    \/ BuildNext

Spec == Init /\ [][Next]_vars

\* the graphical front end: main() constructs the Wall for one of the four
\* bonds of bond_selection_screen, then handles the presses of Enter
GuiInit == Init /\ bond_type \in {"stretcher", "flemish", "english", "wild"}

GuiNext ==
    \/ GenerateCourse
    \/ WildAttempt
    \/ ComputeLayout
    \/ AssignStrides
    \/ LinkParents
    \/ PlanStep
    \/ FinishInit
    \/ PressEnter

GuiSpec == GuiInit /\ [][GuiNext]_vars

(***************************************************************************)
(* Properties.                                                             *)
(***************************************************************************)
Supported == {"stretcher", "flemish", "english", "wild"}

\* every (row, column) pair of the grid
AllIndex(rs) == UNION {{<<i, j>> : j \in ColIdx(rs, i)} : i \in RowIdx(rs)}

\* the Wall has just been constructed and handed over
Constructed == pc = "ready" /\ build_index = 0

\* C1: for every bond, the build order produced at construction lists every
\* (row, column) pair of the grid exactly once, and every parent of the brick
\* at brick_order[n] stands at an index below n.
C1_OrderPermutationRespectsParents ==
    Constructed =>
        /\ {brick_order[n] : n \in 1..Len(brick_order)} = AllIndex(rows)
        /\ Len(brick_order) = Cardinality(AllIndex(rows))
        /\ \A n \in 1..Len(brick_order) :
              \A k \in parents[brick_order[n][1] + 1][brick_order[n][2] + 1] :
                 \E m \in 1..(n - 1) :
                    brick_order[m] = <<brick_order[n][1] - 1, k>>

\* a wild wall has been constructed whose last brick rests on two parents
C1_Witness ==
    /\ Constructed
    /\ bond_type = "wild"
    /\ Len(brick_order) > num_courses
    /\ Cardinality(parents[brick_order[Len(brick_order)][1] + 1]
                          [brick_order[Len(brick_order)][2] + 1]) >= 2

\* the brick the cursor points at needs two build_next calls
TwoPass == bond_type = "english" /\ brick_order[build_index + 1][1] % 2 = 0

CursorBrick(rs) ==
    At(rs, brick_order[build_index + 1][1], brick_order[build_index + 1][2])

\* C2: a build_next call on a cursor that is not exhausted: for a brick of an
\* even row under the english bond the first call sets built and keeps
\* build_index, the second sets back_to_back and adds one to build_index;
\* for every other brick one call sets built and adds one to build_index.
C2_AdvanceSemantics ==
    [][(pc = "ready" /\ build_index < Len(brick_order)) =>
          IF TwoPass
          THEN IF ~CursorBrick(rows).built
               THEN /\ CursorBrick(rows').built
                    /\ ~CursorBrick(rows').back_to_back
                    /\ build_index' = build_index
               ELSE /\ CursorBrick(rows').built
                    /\ CursorBrick(rows').back_to_back
                    /\ build_index' = build_index + 1
          ELSE /\ ~CursorBrick(rows).built
               /\ CursorBrick(rows').built
               /\ build_index' = build_index + 1]_vars

\* an english stretcher has had both calls and a header has had its one call
C2_Witness ==
    /\ pc = "ready"
    /\ bond_type = "english"
    /\ \E n \in 1..build_index :
          /\ brick_order[n][1] % 2 = 0
          /\ At(rows, brick_order[n][1], brick_order[n][2]).back_to_back
    /\ \E n \in 1..build_index :
          /\ brick_order[n][1] % 2 = 1
          /\ At(rows, brick_order[n][1], brick_order[n][2]).built

\* C3: once build_index has reached the length of the build order, a
\* build_next call returns False and changes no field of the Wall.
C3_ExhaustedIsNoOp ==
    [][(pc = "ready" /\ build_index >= Len(brick_order)) =>
          /\ ret' = FALSE
          /\ UNCHANGED <<bond_type, rows, positions_mm, parents, brick_order,
                         build_index>>]_vars

\* build_next has been called on the exhausted cursor
C3_Witness ==
    /\ pc = "ready"
    /\ build_index = Len(brick_order)
    /\ Len(brick_order) > 0
    /\ ret = FALSE

\* C4: a bond-type name outside the four supported ones fails with
\* ValueError before any row, position, stride or order exists, and a
\* construction that failed never hands a Wall to the caller; a Wall that
\* is handed over has its full grid and its full build order.
C4_AllOrNothing ==
    /\ bond_type \notin Supported =>
          /\ pc \in {"generate_bond", "failed"}
          /\ (pc = "failed" => error = "ValueError")
          /\ gen_rows = <<>>
          /\ rows = <<>>
          /\ positions_mm = <<>>
          /\ parents = <<>>
          /\ brick_order = <<>>
    /\ pc = "failed" => ~exposed
    /\ exposed =>
          /\ error = "none"
          /\ Len(rows) = num_courses
          /\ Len(positions_mm) = num_courses
          /\ Len(brick_order) = TotalBricks(rows)

\* construction was asked for an unsupported bond and has failed
C4_Witness ==
    /\ bond_type \notin Supported
    /\ pc = "failed"
    /\ error = "ValueError"

RECURSIVE SumLengths(_, _)
SumLengths(row, n) ==
    IF n > Len(row) THEN 0 ELSE row[n].length + SumLengths(row, n + 1)

\* the width a row occupies: its bricks and the joints between them
RowWidth(row) ==
    IF row = <<>> THEN 0
    ELSE SumLengths(row, 1) + HEAD_JOINT * (Len(row) - 1)

\* the rows the bond generator has returned or is about to return
GeneratedRows == {gen_rows[r] : r \in 1..Len(gen_rows)}
                    \cup {rows[r] : r \in 1..Len(rows)}

\* C5: for every bond, every generated row is at most the nominal wall
\* width plus one half brick wide (2400 mm), bricks and joints together.
C5_RowWidthWithinSlack ==
    \A row \in GeneratedRows : RowWidth(row) <= WALL_WIDTH + BRICK_HALF

RECURSIVE RightEdges(_, _, _)
\* the positions, in the coordinates of the returned row, at which a brick
\* ends and a joint to the next brick begins
RightEdges(row, n, x) ==
    IF n >= Len(row) THEN {}
    ELSE {x + row[n].length}
            \cup RightEdges(row, n + 1, x + row[n].length + HEAD_JOINT)

JointPositions(row) == RightEdges(row, 1, 0)

NoAdjacentHalves(row) ==
    \A n \in 1..(Len(row) - 1) : ~(row[n].is_half /\ row[n + 1].is_half)

WildGenerating ==
    pc = "generate_bond" /\ bond_type = "wild" /\ row_num < num_courses

\* C6: in every row the wild generator returns no two neighbouring bricks
\* are both half bricks, and no joint of a row lies at the position of a
\* joint of the row below it -- neither in the coordinates of the returned
\* rows nor in the generator's own joint sets (filler joint included).
C6_WildNoAdjacentHalvesNoCoincidentJoints ==
    /\ [](bond_type = "wild" =>
            /\ \A row \in GeneratedRows : NoAdjacentHalves(row)
            /\ \A r \in 1..(Len(gen_rows) - 1) :
                  JointPositions(gen_rows[r])
                     \cap JointPositions(gen_rows[r + 1]) = {})
    /\ [][(WildGenerating /\ row_num' = row_num + 1) =>
             prev_joints' \cap prev_joints = {}]_vars

\* the generator has returned a row that ends with a filler and has a half
\* brick in it, on top of another row
C6_Witness ==
    /\ bond_type = "wild"
    /\ Len(gen_rows) >= 2
    /\ gen_rows[Len(gen_rows)][Len(gen_rows[Len(gen_rows)])].is_filler
    /\ \E n \in 1..Len(gen_rows[Len(gen_rows)]) :
          gen_rows[Len(gen_rows)][n].is_half

\* C7: every row the wild generator returns is exactly the nominal wall
\* width (2300 mm) wide.
C7_WildRowsExactWidth ==
    bond_type = "wild" =>
        \A row \in GeneratedRows : RowWidth(row) = WALL_WIDTH

\* the sample of the attempt that is about to run breaks a wild-bond rule
SampleBreaksRule ==
    LET st == WildSample(row_num, rng)
    IN  \/ has_adjacent_halves(st.row_bricks)
        \/ has_stagger_chain(st.curr_joints, prev_joints)
        \/ st.curr_joints \cap prev_joints # {}

\* C8: a row of the wild bond gets at most 1000 attempts: an attempt whose
\* sample keeps the rules ends the row's loop, an attempt whose sample
\* breaks one is followed by another attempt on the same row while fewer
\* than 1000 were made, and the 1000th such attempt raises RuntimeError.
C8_WildAttemptsBounded ==
    [][WildGenerating =>
          /\ attempts < MAX_ATTEMPTS
          /\ ~SampleBreaksRule =>
                /\ row_num' = row_num + 1
                /\ Len(gen_rows') = Len(gen_rows) + 1
                /\ attempts' = 0
                /\ pc' = pc
          /\ (SampleBreaksRule /\ attempts + 1 < MAX_ATTEMPTS) =>
                /\ row_num' = row_num
                /\ gen_rows' = gen_rows
                /\ attempts' = attempts + 1
                /\ pc' = pc
          /\ (SampleBreaksRule /\ attempts + 1 >= MAX_ATTEMPTS) =>
                /\ pc' = "failed"
                /\ error' = "RuntimeError"]_vars

\* an attempt has been accepted and has ended the loop of its row
C8_Witness ==
    /\ WildGenerating
    /\ row_num >= 1
    /\ Len(gen_rows) = row_num
    /\ attempts = 0

AllBricks(rs) == {At(rs, p[1], p[2]) : p \in AllIndex(rs)}

\* C9: after assign_strides, and from then on, every brick of every row has
\* stride >= 0.
C9_StridesAssigned ==
    pc \in {"link_parents", "plan", "ready"} =>
        \A b \in AllBricks(rows) : b.stride >= 0

\* assign_strides has run on a wild wall with a row that reaches past the
\* nominal wall width
C9_Witness ==
    /\ pc = "link_parents"
    /\ bond_type = "wild"
    /\ \E r \in 1..Len(rows) : RowWidth(rows[r]) > WALL_WIDTH

\* the bricks of row i - 1 sharing horizontal extent with brick (i, j)
SharingBelow(i, j) ==
    {k \in ColIdx(rows, i - 1) :
        LET l1 == positions_mm[i + 1][j + 1]
            r1 == l1 + At(rows, i, j).length
            l2 == positions_mm[i][k + 1]
            r2 == l2 + At(rows, i - 1, k).length
        IN  ~(r2 <= l1 \/ l2 >= r1)}

\* C10: in a Wall constructed with the english bond, the stride of every
\* header equals the stride of every stretcher of the row below that shares
\* horizontal extent with it.
C10_HeaderSharesStretcherStride ==
    (Constructed /\ bond_type = "english") =>
        \A p \in AllIndex(rows) :
            (p[1] % 2 = 1 /\ At(rows, p[1], p[2]).is_header) =>
                \A k \in SharingBelow(p[1], p[2]) :
                    At(rows, p[1], p[2]).stride = At(rows, p[1] - 1, k).stride

\* the lengths of the bricks of a row, left to right
RowLengths(row) == Tuple([n \in 1..Len(row) |-> row[n].length])

\* n full-brick lengths in a row
FullLengths(n) == Tuple([k \in 1..n |-> BRICK_FULL])

\* the rows of the wall, while the generator runs and after it returned
RowsSoFar == IF pc = "generate_bond" THEN gen_rows ELSE rows

Interval(i, j) ==
    LET left == positions_mm[i + 1][j + 1]
                  + (IF bond_type = "flemish" /\ i % 2 = 1 THEN 52 ELSE 0)
    IN  <<left, left + At(rows, i, j).length>>

\* the two intervals share more than an edge
StrictOverlap(a, b) == a[1] < b[2] /\ b[1] < a[2]

\* link_parents_for_all_bricks has just returned
JustLinked == pc = "plan" /\ build_sequence = <<>>

\* C12: the parents of a brick of row i > 0 are exactly the bricks of row
\* i - 1 whose interval strictly overlaps its own (a brick that only touches
\* it at an edge, or lies a joint away, is no parent), a brick of row 0 has
\* no parents, and the parents never change after they were linked.
C12_ParentsAreStrictOverlaps ==
    /\ [](JustLinked =>
            \A p \in AllIndex(rows) :
               parents[p[1] + 1][p[2] + 1] =
                  IF p[1] = 0 THEN {}
                  ELSE {k \in ColIdx(rows, p[1] - 1) :
                          StrictOverlap(Interval(p[1], p[2]),
                                        Interval(p[1] - 1, k))})
    /\ [][(pc \in {"plan", "ready"}) => UNCHANGED parents]_vars

\* the bricks of a flemish wall have been linked: a brick of a shifted row
\* rests on three bricks, the rightmost of which lies wholly to the right
\* of the brick's unshifted position
C12_Witness ==
    /\ JustLinked
    /\ bond_type = "flemish"
    /\ \E p \in AllIndex(rows) :
          /\ p[1] % 2 = 1
          /\ Cardinality(parents[p[1] + 1][p[2] + 1]) = 3
          /\ \E k \in parents[p[1] + 1][p[2] + 1] :
                Interval(p[1] - 1, k)[1] >=
                   positions_mm[p[1] + 1][p[2] + 1] + At(rows, p[1], p[2]).length

\* the bricks the planner may place next: not built, every parent built
Eligible ==
    {p \in AllIndex(rows) :
        /\ ~At(rows, p[1], p[2]).built
        /\ \A k \in parents[p[1] + 1][p[2] + 1] : At(rows, p[1] - 1, k).built}

\* the cost of placing brick p from the planner's current anchor
CostOf(p) ==
    Placement(rows, positions_mm, bond_type, p[1], p[2], anchor).cost

\* row + x / BRICK_FULL of brick p, times BRICK_FULL
DiagonalTimesFull(p) == p[1] * BRICK_FULL + Interval(p[1], p[2])[1]

\* brick p lies inside the reach window anchored at a = <<x, 2y>>
InsideWindow(p, a) ==
    /\ a[1] <= Interval(p[1], p[2])[1]
    /\ Interval(p[1], p[2])[2] <= a[1] + BUILD_WIDTH
    /\ a[2] <= p[1] * COURSE_HEIGHT_X2
    /\ p[1] * COURSE_HEIGHT_X2 + 2 * BRICK_HEIGHT <= a[2] + 2 * BUILD_HEIGHT

\* the step is an iteration of the planner's loop that places a brick
PlacesBrick == pc = "plan" /\ Len(build_sequence') = Len(build_sequence) + 1

\* the brick placed by the step
Placed == build_sequence'[Len(build_sequence')]

\* C13: the brick a planner step places is eligible, no eligible brick costs
\* less, no eligible brick of the same cost has a smaller diagonal key, and
\* the step keeps the anchor and the zone counter when some eligible brick
\* lies inside the current window.
C13_PlacesCheapestEligible ==
    [][PlacesBrick =>
          /\ Placed \in Eligible
          /\ \A q \in Eligible :
                /\ CostOf(Placed) <= CostOf(q)
                /\ CostOf(q) = CostOf(Placed) =>
                      DiagonalTimesFull(Placed) <= DiagonalTimesFull(q)
          /\ (\E q \in Eligible : InsideWindow(q, anchor)) =>
                /\ anchor' = anchor
                /\ stride_id' = stride_id]_vars

\* the planner has just placed, without moving the window, a brick of a
\* higher row although a brick of a lower row was eligible inside the same
\* window with a larger diagonal key
C13_Witness ==
    /\ pc = "plan"
    /\ Len(build_sequence) >= 2
    /\ LET w == build_sequence[Len(build_sequence)]
           v == build_sequence[Len(build_sequence) - 1]
       IN  /\ At(rows, w[1], w[2]).stride = At(rows, v[1], v[2]).stride
           /\ \E q \in Eligible :
                 /\ q[1] < w[1]
                 /\ DiagonalTimesFull(q) > DiagonalTimesFull(w)
                 /\ InsideWindow(q, anchor)
                 /\ InsideWindow(w, anchor)

\* the stride the planner recorded on the n-th brick of its build sequence
LabelAt(n) == At(rows, build_sequence[n][1], build_sequence[n][2]).stride

\* C14: a planner step whose winning brick costs more than 0 adds exactly 1
\* to the zone counter and moves the anchor to the winning brick's
\* candidate anchor; a step whose winning brick costs 0, and every other
\* step of the planner, leaves both unchanged; the brick placed is labelled
\* with the counter, so the labels along the build order never decrease
\* and rise by at most 1 from one brick to the next.
C14_CounterFollowsMoves ==
    /\ [][PlacesBrick =>
             /\ IF CostOf(Placed) > 0
                THEN /\ stride_id' = stride_id + 1
                     /\ anchor' # anchor
                     /\ anchor' = Placement(rows, positions_mm, bond_type,
                                            Placed[1], Placed[2], anchor).anchor
                ELSE /\ stride_id' = stride_id
                     /\ anchor' = anchor
             /\ At(rows', Placed[1], Placed[2]).stride = stride_id']_vars
    /\ [][(pc = "plan" /\ ~PlacesBrick) => UNCHANGED <<stride_id, anchor>>]_vars
    /\ [](pc \in {"plan", "ready"} =>
            \A n \in 1..(Len(build_sequence) - 1) :
               /\ LabelAt(n) <= LabelAt(n + 1)
               /\ LabelAt(n + 1) <= LabelAt(n) + 1)

\* the planner has placed a brick at cost 0 right after a brick it moved
\* the window for
C14_Witness ==
    /\ pc = "plan"
    /\ Len(build_sequence) >= 3
    /\ LabelAt(Len(build_sequence)) = stride_id
    /\ LabelAt(Len(build_sequence) - 1) = stride_id
    /\ LabelAt(Len(build_sequence) - 2) = stride_id - 1

\* the planner's loop is running with bricks still to place
Planning == pc = "plan" /\ Len(build_sequence) < TotalBricks(rows)

\* C15: while bricks remain the planner always has an eligible brick and
\* never raises; every iteration places exactly one brick, which was not
\* placed before, and changes no other brick, so the number of bricks still
\* to place falls by one and never below 0; the loop is left only for the
\* constructed Wall, with as many bricks placed as the grid has.
C15_PlannerNeverStalls ==
    /\ [](Planning => Eligible # {})
    /\ [](pc = "plan" => Len(build_sequence) <= TotalBricks(rows))
    /\ [][Planning =>
             /\ pc' = "plan"
             /\ error' = "none"
             /\ Len(build_sequence') = Len(build_sequence) + 1
             /\ TotalBricks(rows') = TotalBricks(rows)
             /\ ~At(rows, Placed[1], Placed[2]).built
             /\ At(rows', Placed[1], Placed[2]).built
             /\ \A q \in AllIndex(rows) :
                   q # Placed => At(rows', q[1], q[2]) = At(rows, q[1], q[2])]_vars
    /\ [][(pc = "plan" /\ pc' # "plan") =>
             /\ pc' = "ready"
             /\ Len(brick_order') = TotalBricks(rows)
             /\ brick_order' = build_sequence]_vars

\* the planner's loop has placed the last brick of an english wall and is
\* about to return
C15_Witness ==
    /\ pc = "plan"
    /\ bond_type = "english"
    /\ Len(build_sequence) = TotalBricks(rows)
    /\ \A b \in AllBricks(rows) : b.built

\* the ids of the zones, in the order of their enumeration, whose height
\* band holds row i and whose width band the footprint of brick (i, j)
\* overlaps
ZoneIdsOf(i, j) ==
    {n - 1 : n \in {m \in 1..Len(Zones) :
        /\ (2 * Zones[m].top) \div COURSE_HEIGHT_X2 <= i
        /\ i < (2 * (Zones[m].top + BUILD_HEIGHT)) \div COURSE_HEIGHT_X2
        /\ positions_mm[i + 1][j + 1] < Zones[m].left + BUILD_WIDTH
        /\ positions_mm[i + 1][j + 1] + At(rows, i, j).length > Zones[m].left}}

\* the least element of a non-empty set of integers
Least(S) == CHOOSE x \in S : \A y \in S : x <= y

\* C16 (as stated): after the zone partitioning the zones carry the ids
\* 0, 1, 2, ... in the order of their enumeration, and every brick (the
\* headers of the english bond, which are re-labelled, aside) carries the
\* id of the first zone of its height band that its footprint overlaps.
C16_FirstOverlappingZoneWins ==
    pc = "link_parents" =>
        \A p \in AllIndex(rows) :
            ~(bond_type = "english" /\ At(rows, p[1], p[2]).is_header) =>
                /\ ZoneIdsOf(p[1], p[2]) # {}
                /\ At(rows, p[1], p[2]).stride = Least(ZoneIdsOf(p[1], p[2]))

\* the greatest element of a non-empty set of integers
Greatest(S) == CHOOSE x \in S : \A y \in S : x >= y

\* C16 (amended): after the zone partitioning the zones carry the ids
\* 0, 1, 2, ... in the order of their enumeration, and every brick (the
\* headers of the english bond, which are re-labelled, aside) carries the
\* id of the last zone of its height band that its footprint overlaps.
C16_LastOverlappingZoneWins ==
    pc = "link_parents" =>
        \A p \in AllIndex(rows) :
            ~(bond_type = "english" /\ At(rows, p[1], p[2]).is_header) =>
                /\ ZoneIdsOf(p[1], p[2]) # {}
                /\ ZoneIdsOf(p[1], p[2]) \subseteq 0..(Len(Zones) - 1)
                /\ At(rows, p[1], p[2]).stride =
                      Greatest(ZoneIdsOf(p[1], p[2]))

\* the zones of a wall have been assigned: a brick of row 0 straddles
\* x = 800 and a brick of the upper band straddles x = 1600
C16_Witness ==
    /\ pc = "link_parents"
    /\ \E j \in ColIdx(rows, 0) :
          /\ positions_mm[1][j + 1] < BUILD_WIDTH
          /\ positions_mm[1][j + 1] + At(rows, 0, j).length > BUILD_WIDTH
          /\ ZoneIdsOf(0, j) = {0, 1}
          /\ At(rows, 0, j).stride = 1
    /\ \E j \in ColIdx(rows, num_courses - 1) :
          /\ ZoneIdsOf(num_courses - 1, j) = {4, 5}
          /\ At(rows, num_courses - 1, j).stride = 5

\* C17: in every state of a constructed Wall, whatever number of build_next
\* calls it has had, each parent of a built brick is built, and under the
\* english bond each parent on a stretcher (even) row also has back_to_back
\* set.
C17_BuiltRestsOnFullyBuilt ==
    pc = "ready" =>
        \A p \in AllIndex(rows) :
            At(rows, p[1], p[2]).built =>
                \A k \in parents[p[1] + 1][p[2] + 1] :
                    /\ At(rows, p[1] - 1, k).built
                    /\ (bond_type = "english" /\ (p[1] - 1) % 2 = 0) =>
                          At(rows, p[1] - 1, k).back_to_back

\* an english Wall in the middle of its build: a header resting on
\* stretchers is built, and a stretcher resting on headers has had the
\* first of its two calls only
C17_Witness ==
    /\ pc = "ready"
    /\ bond_type = "english"
    /\ \E p \in AllIndex(rows) :
          /\ p[1] % 2 = 1
          /\ At(rows, p[1], p[2]).built
          /\ Cardinality(parents[p[1] + 1][p[2] + 1]) >= 1
    /\ \E p \in AllIndex(rows) :
          /\ p[1] % 2 = 0
          /\ p[1] >= 2
          /\ At(rows, p[1], p[2]).built
          /\ ~At(rows, p[1], p[2]).back_to_back
          /\ Cardinality(parents[p[1] + 1][p[2] + 1]) >= 2

\* the number of built flags plus the number of back_to_back flags set
FlagsSet(rs) ==
    Cardinality({p \in AllIndex(rs) : At(rs, p[1], p[2]).built})
       + Cardinality({p \in AllIndex(rs) : At(rs, p[1], p[2]).back_to_back})

\* the number of bricks on the even rows
EvenRowBricks(rs) ==
    Cardinality({p \in AllIndex(rs) : p[1] % 2 = 0})

\* the build_next calls that return True on a Wall from its construction
\* to the end of its build order: N, and N + S under the english bond
CallsNeeded ==
    TotalBricks(rows)
       + (IF bond_type = "english" THEN EvenRowBricks(rows) ELSE 0)

\* C18: a Wall is handed over with build_index = 0 and no brick built; a
\* build_next call on it returns True, and sets exactly one flag (built or
\* back_to_back) of one brick, as long as build_index is below the length
\* of the build order, and returns False from then on; build_index reaches
\* that length exactly when N flags are set (N + S under the english
\* bond), so exactly that many calls return True; every brick is built
\* then; build_index never decreases and never exceeds the length.
C18_CallsUntilExhausted ==
    /\ [][(pc = "plan" /\ pc' = "ready") =>
             /\ build_index' = 0
             /\ FlagsSet(rows') = 0]_vars
    /\ [][pc = "ready" =>
             /\ build_index' >= build_index
             /\ IF build_index < Len(brick_order)
                THEN /\ ret' = TRUE
                     /\ FlagsSet(rows') = FlagsSet(rows) + 1
                ELSE /\ ret' = FALSE
                     /\ FlagsSet(rows') = FlagsSet(rows)]_vars
    /\ [](pc = "ready" =>
            /\ build_index <= Len(brick_order)
            /\ Len(brick_order) = TotalBricks(rows)
            /\ FlagsSet(rows) <= CallsNeeded
            /\ build_index = Len(brick_order) <=> FlagsSet(rows) = CallsNeeded
            /\ build_index = Len(brick_order) =>
                  \A b \in AllBricks(rows) : b.built)

\* the last call that returns True has just been made on an english Wall
C18_Witness ==
    /\ pc = "ready"
    /\ bond_type = "english"
    /\ build_index = Len(brick_order)
    /\ ret = TRUE
    /\ FlagsSet(rows) = TotalBricks(rows) + EvenRowBricks(rows)
    /\ EvenRowBricks(rows) > 0

\* C19: when the planner has placed a brick (and moved the window for it,
\* if it did), the brick's footprint, from its offset-adjusted x to x +
\* length and from its row's y to y + BRICK_HEIGHT, lies inside the
\* BUILD_WIDTH x BUILD_HEIGHT window at the planner's anchor.
C19_PlacedInsideWindow ==
    (pc = "plan" /\ build_sequence # <<>>) =>
        InsideWindow(build_sequence[Len(build_sequence)], anchor)

\* the brick build_next was last called for and has set built on, if any
Started ==
    IF build_index < Len(brick_order) /\ CursorBrick(rows).built
    THEN <<brick_order[build_index + 1]>>
    ELSE IF build_index > 0 THEN <<brick_order[build_index]>>
    ELSE <<>>

\* C20: in the front end, whatever number of presses of Enter a Wall has
\* had, `moves` is 0 before the first brick is started and otherwise the
\* stride of the brick started last plus 1; the press of Enter that only
\* sets back_to_back on an english stretcher leaves `moves` as it is.
C20_MovesCountsWindows ==
    /\ [](pc = "ready" =>
            moves = IF Started = <<>> THEN 0
                    ELSE At(rows, Started[1][1], Started[1][2]).stride + 1)
    /\ [][(pc = "ready" /\ build_index < Len(brick_order) /\ TwoPass
             /\ CursorBrick(rows).built) =>
                moves' = moves]_vars

====
